---------------------------- MODULE Spec2Model ----------------------------
(***************************************************************************)
(* TickerStats (src/main.py): the statistics pipeline.                     *)
(*                                                                         *)
(*   resample_data         daily bars -> weekly / monthly bars             *)
(*   calc_stats            a numeric series -> min, max, avg, std, bands   *)
(*   calculate_statistics  bars + window + threshold -> the stats dict     *)
(*   main                  the Analyze handler that passes the widgets on  *)
(*                                                                         *)
(* Numbers.  A float is modelled exactly as a rational [n, d] with d > 0   *)
(* in lowest terms; d = 0 encodes the three IEEE specials (n = 0: NaN,     *)
(* n = 1: +inf, n = -1: -inf).  A standard deviation is a square root, so  *)
(* a statistic is a value  m + k * sqrt(v)  kept as the record [m, k, v]   *)
(* (k = 0 and v = 0 for a plain rational).                                 *)
(***************************************************************************)
EXTENDS Integers, Sequences, FiniteSets, TLC

\* ------------------------------------------------------------------ bounds
MaxBars == 3           \* longest bar sequence handed to calculate_statistics
MaxDay == 3            \* those bars are dated 1 .. MaxDay
MaxLen == 3            \* longest series handed to calc_stats on its own
MaxVal == 2            \* values of such a series range over -MaxVal .. MaxVal
MaxCallBars == 2           \* bars and days of a frame passed to several calls
MaxCallDay == 2
MaxResampleBars == 2   \* longest daily sequence handed to resample_data
ResampleFirstDay == 26 \* those bars are dated ResampleFirstDay ..
ResampleSpan == 9      \*   ResampleFirstDay + ResampleSpan - 1

\* ------------------------------------------------------- float arithmetic
AbsInt(x) == IF x < 0 THEN -x ELSE x

RECURSIVE GCD(_, _)
GCD(a, b) == IF b = 0 THEN a ELSE GCD(b, a % b)

\* the rational n/d (d # 0) in lowest terms with a positive denominator
Norm(n, d) ==
    LET g == GCD(AbsInt(n), AbsInt(d))
        s == IF d < 0 THEN -1 ELSE 1
    IN  [n |-> (s * n) \div g, d |-> (s * d) \div g]

Rat(i) == [n |-> i, d |-> 1]
Zero == Rat(0)
NaN == [n |-> 0, d |-> 0]
PInf == [n |-> 1, d |-> 0]
NInf == [n |-> -1, d |-> 0]

IsNaN(a) == a.d = 0 /\ a.n = 0
IsInf(a) == a.d = 0 /\ a.n # 0
IsFinite(a) == a.d > 0
Sign(a) == IF a.n > 0 THEN 1 ELSE IF a.n < 0 THEN -1 ELSE 0

FNeg(a) == [n |-> -a.n, d |-> a.d]
\* FAbs with the abs() left out
FAbsOmitted(a) == a
FAbs(a) == [n |-> AbsInt(a.n), d |-> a.d]

FAdd(a, b) ==
    IF IsNaN(a) \/ IsNaN(b) THEN NaN
    ELSE IF IsInf(a) /\ IsInf(b) THEN (IF a.n = b.n THEN a ELSE NaN)
    ELSE IF IsInf(a) THEN a
    ELSE IF IsInf(b) THEN b
    ELSE LET g == GCD(a.d, b.d)
         IN  Norm(a.n * (b.d \div g) + b.n * (a.d \div g), (a.d \div g) * b.d)

FSub(a, b) == FAdd(a, FNeg(b))

FMul(a, b) ==
    IF IsNaN(a) \/ IsNaN(b) THEN NaN
    ELSE IF IsInf(a) \/ IsInf(b)
         THEN (IF Sign(a) * Sign(b) = 0 THEN NaN
               ELSE [n |-> Sign(a) * Sign(b), d |-> 0])
    ELSE LET g1 == GCD(AbsInt(a.n), b.d)
             g2 == GCD(AbsInt(b.n), a.d)
         IN  Norm((a.n \div g1) * (b.n \div g2), (a.d \div g2) * (b.d \div g1))

\* IEEE division; the divisors of the pipeline are never negative zero
FDiv(a, b) ==
    IF IsNaN(a) \/ IsNaN(b) THEN NaN
    ELSE IF IsInf(a) THEN (IF IsInf(b) THEN NaN
                           ELSE [n |-> a.n * (IF b.n < 0 THEN -1 ELSE 1), d |-> 0])
    ELSE IF IsInf(b) THEN Zero
    ELSE IF b.n = 0 THEN (IF a.n = 0 THEN NaN ELSE [n |-> Sign(a), d |-> 0])
    ELSE LET g1 == GCD(AbsInt(a.n), AbsInt(b.n))
             g2 == GCD(a.d, b.d)
         IN  Norm((a.n \div g1) * (b.d \div g2), (a.d \div g2) * (b.n \div g1))

\* a < b for two values that are not NaN
Less(a, b) ==
    IF IsInf(a) THEN a.n < 0 /\ ~(IsInf(b) /\ b.n < 0)
    ELSE IF IsInf(b) THEN b.n > 0
    ELSE IF Sign(a) # Sign(b) THEN Sign(a) < Sign(b)
    ELSE IF a.n = 0 THEN FALSE
    ELSE LET g1 == GCD(AbsInt(a.n), AbsInt(b.n))
             g2 == GCD(a.d, b.d)
         IN  (a.n \div g1) * (b.d \div g2) < (b.n \div g1) * (a.d \div g2)

\* comparisons with a NaN operand are False
FLt(a, b) == ~IsNaN(a) /\ ~IsNaN(b) /\ Less(a, b)
FGt(a, b) == FLt(b, a)
FGe(a, b) == ~IsNaN(a) /\ ~IsNaN(b) /\ ~Less(a, b)

\* ------------------------------------------- values of the form m + k*sqrt(v)
Q(m, k, v) == [m |-> m, k |-> k, v |-> IF k = 0 THEN Zero ELSE v]
QRat(r) == Q(r, 0, Zero)
QZero == QRat(Zero)
QIsNaN(q) == IsNaN(q.m)

\* m + c * s for a rational m, an integer c and a deviation s = k*sqrt(v) or NaN
QLin(m, c, s) ==
    IF QIsNaN(s) \/ IsNaN(m) THEN QRat(NaN) ELSE Q(m, c * s.k, s.v)

\* m + k*sqrt(v) < 0, decided exactly by comparing squares
QLtZero(q) ==
    IF QIsNaN(q) THEN FALSE
    ELSE IF q.k = 0 THEN FLt(q.m, Zero)
    ELSE LET m2 == FMul(q.m, q.m)
             k2v == FMul(Rat(q.k * q.k), q.v)
         IN  IF q.k < 0 THEN FLt(q.m, Zero) \/ FLt(m2, k2v)
             ELSE FLt(q.m, Zero) /\ FGt(m2, k2v)

QGeZero(q) == ~QIsNaN(q) /\ ~QLtZero(q)
QIsFinite(q) == IsFinite(q.m)

\* ----------------------------------------------------------- pandas Series
RECURSIVE SeqSum(_)
SeqSum(s) == IF s = <<>> THEN Zero ELSE FAdd(s[1], SeqSum(Tail(s)))

RECURSIVE SeqMin(_)
SeqMin(s) == IF Len(s) = 1 THEN s[1]
             ELSE LET r == SeqMin(Tail(s)) IN IF Less(s[1], r) THEN s[1] ELSE r

RECURSIVE SeqMax(_)
SeqMax(s) == IF Len(s) = 1 THEN s[1]
             ELSE LET r == SeqMax(Tail(s)) IN IF Less(r, s[1]) THEN s[1] ELSE r

\* ReplaceInf left out: infinities stay in the series
ReplaceInfOmitted(s) == s
\* series.replace([np.inf, -np.inf], np.nan)
ReplaceInf(s) == [i \in DOMAIN s |-> IF IsInf(s[i]) THEN NaN ELSE s[i]]
\* series.dropna()
DropNa(s) == SelectSeq(s, LAMBDA x : ~IsNaN(x))

SeriesMean(s) == FDiv(SeqSum(s), Rat(Len(s)))

\* the sample variance (ddof = 1) of a series of at least two values
SeriesVar(s) ==
    LET mu == SeriesMean(s)
        sq == [i \in DOMAIN s |-> FMul(FSub(s[i], mu), FSub(s[i], mu))]
    IN  FDiv(SeqSum(sq), Rat(Len(s) - 1))

\* series.std(): NaN for fewer than two values, else sqrt(variance)
SeriesStd(s) ==
    IF Len(s) < 2 THEN QRat(NaN)
    ELSE LET v == SeriesVar(s) IN IF v = Zero THEN QZero ELSE Q(Zero, 1, v)

\* ---------------------------------------------------------------- dicts
Key(name, suffix) == name \o "_" \o suffix
EmptyDict == [k \in {} |-> QZero]
\* stats.update(d)
Update(stats, d) == d @@ stats
\* a run of stats.update calls, first to last
RECURSIVE UpdateAll(_, _)
UpdateAll(stats, ds) ==
    IF ds = <<>> THEN stats ELSE UpdateAll(Update(stats, Head(ds)), Tail(ds))

Suffixes == {"min", "max", "avg", "std", "1std_lower", "1std_upper",
             "2std_lower", "2std_upper", "3std_lower", "3std_upper"}
BoundSuffix(i, side) == (IF i = 1 THEN "1" ELSE IF i = 2 THEN "2" ELSE "3") \o "std_" \o side

\* the literal of lines 90-95, and the suffix loops of calculate_statistics
ZeroBlock(name) ==
    (Key(name, "min") :> QZero) @@ (Key(name, "max") :> QZero) @@
    (Key(name, "avg") :> QZero) @@ (Key(name, "std") :> QZero) @@
    (Key(name, "1std_lower") :> QZero) @@ (Key(name, "1std_upper") :> QZero) @@
    (Key(name, "2std_lower") :> QZero) @@ (Key(name, "2std_upper") :> QZero) @@
    (Key(name, "3std_lower") :> QZero) @@ (Key(name, "3std_upper") :> QZero)

\* StdValue with line 62 testing only std_val == 0
StdValueNoIsnaTest(raw) == IF raw = QZero THEN QZero ELSE raw

\* std_val after the test of line 62
StdValue(raw) == IF QIsNaN(raw) \/ raw = QZero THEN QZero ELSE raw

\* StdBound with line 62 testing only std_val == 0
StdBoundNoIsnaTest(mean_val, raw, i, side, is_always_positive) ==
    IF raw = QZero
    THEN QRat(mean_val)
    ELSE IF side = "lower"
         THEN LET lower == QLin(mean_val, -i, raw)
              IN  IF is_always_positive /\ QLtZero(lower) THEN QZero ELSE lower
         ELSE QLin(mean_val, i, raw)

\* StdBound without the max(0, lower) of lines 76-77
StdBoundNoClamp(mean_val, raw, i, side, is_always_positive) ==
    IF QIsNaN(raw) \/ raw = QZero
    THEN QRat(mean_val)
    ELSE IF side = "lower" THEN QLin(mean_val, -i, raw) ELSE QLin(mean_val, i, raw)

\* one bound of the loops of lines 65-67 and 71-80
StdBound(mean_val, raw, i, side, is_always_positive) ==
    IF QIsNaN(raw) \/ raw = QZero
    THEN QRat(mean_val)
    ELSE IF side = "lower"
         THEN LET lower == QLin(mean_val, -i, raw)
              IN  IF is_always_positive /\ QLtZero(lower) THEN QZero ELSE lower
         ELSE QLin(mean_val, i, raw)

calc_stats(series, name, is_always_positive) ==
    LET series_clean == DropNa(ReplaceInf(series))
    IN  IF Len(series_clean) > 0
        THEN LET mean_val == SeriesMean(series_clean)
                 raw == SeriesStd(series_clean)
                 B(i, side) == StdBound(mean_val, raw, i, side, is_always_positive)
             IN  (Key(name, "min") :> QRat(SeqMin(series_clean))) @@
                 (Key(name, "max") :> QRat(SeqMax(series_clean))) @@
                 (Key(name, "avg") :> QRat(mean_val)) @@
                 (Key(name, "std") :> StdValue(raw)) @@
                 (Key(name, "1std_lower") :> B(1, "lower")) @@
                 (Key(name, "1std_upper") :> B(1, "upper")) @@
                 (Key(name, "2std_lower") :> B(2, "lower")) @@
                 (Key(name, "2std_upper") :> B(2, "upper")) @@
                 (Key(name, "3std_lower") :> B(3, "lower")) @@
                 (Key(name, "3std_upper") :> B(3, "upper"))
        ELSE ZeroBlock(name)

RECURSIVE SortedSeq(_)
SortedSeq(S) ==
    IF S = {} THEN <<>>
    ELSE LET m == CHOOSE x \in S : \A y \in S : x <= y
         IN  <<m>> \o SortedSeq(S \ {m})

\* ------------------------------------------------------ optional arguments
None == [some |-> FALSE, v |-> 0]
Some(x) == [some |-> TRUE, v |-> x]

\* ------------------------------------------------- calculate_statistics
\* lines 103-107: keep start_date - 1 day .. end_date when both dates are given
FilterWindow(d, sd, ed) ==
    IF sd.some /\ ed.some
    THEN LET analysis_start == sd.v - 1
         IN  SelectSeq(d, LAMBDA b : b.date >= analysis_start /\ b.date <= ed.v)
    ELSE d

Pct(x, base) == FMul(FDiv(x, base), Rat(100))

\* lines 115-136: the columns computed on the buffered frame; shift(1) leaves
\* the first row's Prev_Close NaN
BasicCalculations(filtered) ==
    [i \in DOMAIN filtered |->
        LET b == filtered[i]
            O == Rat(b.Open)
            H == Rat(b.High)
            L == Rat(b.Low)
            C == Rat(b.Close)
            Prev_Close == IF i = 1 THEN NaN ELSE Rat(filtered[i - 1].Close)
        IN  [date |-> b.date, Open |-> O, High |-> H, Low |-> L, Close |-> C,
             Range_Points |-> FSub(H, L),
             Range_Pct |-> Pct(FSub(H, L), O),
             Body_Points |-> FAbs(FSub(C, O)),
             Body_Pct |-> Pct(FAbs(FSub(C, O)), O),
             Prev_Close |-> Prev_Close,
             Gap_Points |-> FSub(O, Prev_Close),
             Gap_Pct |-> Pct(FSub(O, Prev_Close), Prev_Close),
             Change_From_Prev_Close_Points |-> FSub(C, Prev_Close),
             Change_From_Prev_Close_Pct |-> Pct(FSub(C, Prev_Close), Prev_Close),
             Net_Change_Points |-> FSub(C, Prev_Close),
             Net_Change_Pct |-> Pct(FSub(C, Prev_Close), Prev_Close)]]

\* the caller's frame if line 115 bound df without .copy(): with no window
\* df is the caller's object and the derived columns are added to it
CallerDataAliased(d, sd, ed) ==
    IF sd.some /\ ed.some THEN d
    ELSE [i \in DOMAIN d |-> d[i] @@ [Range_Points |-> d[i].High - d[i].Low]]
\* lines 107-115: the caller's frame after the call; data[mask] is a new frame
\* bound to the local name and df is a copy, so no column is added to it
CallerData(d, sd, ed) == d

\* RemoveBuffer left out: the buffer row stays in the frame
RemoveBufferOmitted(frame, sd) == frame

\* lines 139-140: drop the rows dated before start_date
RemoveBuffer(frame, sd) ==
    IF sd.some THEN SelectSeq(frame, LAMBDA r : r.date >= sd.v) ELSE frame

\* WherePos written as series.clip(lower=0), which keeps NaN
WherePosClip(x) == IF IsNaN(x) THEN NaN ELSE IF FGt(x, Zero) THEN x ELSE Zero

\* series.where(cond, 0) for one element, and abs(series.where(cond, 0))
WherePos(x) == IF FGt(x, Zero) THEN x ELSE Zero
WhereNegAbs(x) == FAbs(IF FLt(x, Zero) THEN x ELSE Zero)

\* lines 144-160: the positive / negative companion columns
Separate(frame) ==
    [i \in DOMAIN frame |->
        LET r == frame[i]
            cfo == FSub(r.Close, r.Open)
            cfop == Pct(FSub(r.Close, r.Open), r.Open)
        IN  [Gap_Up_Points |-> WherePos(r.Gap_Points),
             Gap_Down_Points |-> WhereNegAbs(r.Gap_Points),
             Gap_Up_Pct |-> WherePos(r.Gap_Pct),
             Gap_Down_Pct |-> WhereNegAbs(r.Gap_Pct),
             Green_From_Prev_Points |-> WherePos(r.Change_From_Prev_Close_Points),
             Red_From_Prev_Points |-> WhereNegAbs(r.Change_From_Prev_Close_Points),
             Green_From_Prev_Pct |-> WherePos(r.Change_From_Prev_Close_Pct),
             Red_From_Prev_Pct |-> WhereNegAbs(r.Change_From_Prev_Close_Pct),
             Change_From_Open_Points |-> cfo,
             Change_From_Open_Pct |-> cfop,
             Green_From_Open_Points |-> WherePos(cfo),
             Red_From_Open_Points |-> WhereNegAbs(cfo),
             Green_From_Open_Pct |-> WherePos(cfop),
             Red_From_Open_Pct |-> WhereNegAbs(cfop)] @@ r]

\* lines 165-166
Candle_Direction(r) ==
    IF FGt(r.Change_From_Open_Points, Zero) THEN "green"
    ELSE IF FLt(r.Change_From_Open_Points, Zero) THEN "red" ELSE "flat"

\* lines 180-183: the mode test is an equality with the string "body"
threshold_condition(r, threshold, ptype) ==
    IF ptype = "body" THEN FGe(r.Body_Pct, threshold) ELSE FGe(r.Range_Pct, threshold)

\* lines 187 and 208
\* green_threshold_mask without the Candle_Direction test
green_threshold_mask_any(r, threshold, ptype) == threshold_condition(r, threshold, ptype)
green_threshold_mask(r, threshold, ptype) ==
    threshold_condition(r, threshold, ptype) /\ Candle_Direction(r) = "green"
red_threshold_mask(r, threshold, ptype) ==
    threshold_condition(r, threshold, ptype) /\ Candle_Direction(r) = "red"

\* PullbackColumns reading the neighbour with shift(1): the first row's Next_*
\* is NaN and every other row sees the bar before it
PullbackColumnsShiftBack(frame, threshold, ptype) ==
    [i \in DOMAIN frame |->
        LET r == frame[i]
            Next_High == IF i = 1 THEN NaN ELSE frame[i - 1].High
            Next_Low == IF i = 1 THEN NaN ELSE frame[i - 1].Low
            g == green_threshold_mask(r, threshold, ptype)
            rd == red_threshold_mask(r, threshold, ptype)
        IN  [Next_High |-> Next_High, Next_Low |-> Next_Low,
             Green_Pullback_Points |-> IF g THEN FSub(Next_Low, r.Close) ELSE NaN,
             Green_Pullback_Pct |-> IF g THEN Pct(FSub(Next_Low, r.Close), r.Close) ELSE NaN,
             Red_Pullback_Points |-> IF rd THEN FSub(Next_High, r.Close) ELSE NaN,
             Red_Pullback_Pct |-> IF rd THEN Pct(FSub(Next_High, r.Close), r.Close) ELSE NaN]
            @@ r]

\* lines 169-225: shift(-1) leaves the last row's Next_* NaN
\* PullbackColumns filling the bars outside the mask with 0 instead of np.nan
PullbackColumnsZeroFill(frame, threshold, ptype) ==
    [i \in DOMAIN frame |->
        LET r == frame[i]
            Next_High == IF i = Len(frame) THEN NaN ELSE frame[i + 1].High
            Next_Low == IF i = Len(frame) THEN NaN ELSE frame[i + 1].Low
            g == green_threshold_mask(r, threshold, ptype)
            rd == red_threshold_mask(r, threshold, ptype)
        IN  [Next_High |-> Next_High, Next_Low |-> Next_Low,
             Green_Pullback_Points |-> IF g THEN FSub(Next_Low, r.Close) ELSE Zero,
             Green_Pullback_Pct |-> IF g THEN Pct(FSub(Next_Low, r.Close), r.Close) ELSE Zero,
             Red_Pullback_Points |-> IF rd THEN FSub(Next_High, r.Close) ELSE Zero,
             Red_Pullback_Pct |-> IF rd THEN Pct(FSub(Next_High, r.Close), r.Close) ELSE Zero]
            @@ r]

PullbackColumns(frame, threshold, ptype) ==
    [i \in DOMAIN frame |->
        LET r == frame[i]
            Next_High == IF i = Len(frame) THEN NaN ELSE frame[i + 1].High
            Next_Low == IF i = Len(frame) THEN NaN ELSE frame[i + 1].Low
            g == green_threshold_mask(r, threshold, ptype)
            rd == red_threshold_mask(r, threshold, ptype)
        IN  [Next_High |-> Next_High, Next_Low |-> Next_Low,
             Green_Pullback_Points |-> IF g THEN FSub(Next_Low, r.Close) ELSE NaN,
             Green_Pullback_Pct |-> IF g THEN Pct(FSub(Next_Low, r.Close), r.Close) ELSE NaN,
             Red_Pullback_Points |-> IF rd THEN FSub(Next_High, r.Close) ELSE NaN,
             Red_Pullback_Pct |-> IF rd THEN Pct(FSub(Next_High, r.Close), r.Close) ELSE NaN]
            @@ r]

\* lines 97-225: the frame the statistics are taken from (<<>> on an early return)
DerivedFrame(d, sd, ed, threshold, ptype) ==
    IF d = <<>> THEN <<>>
    ELSE LET filtered_data == FilterWindow(d, sd, ed)
         IN  IF filtered_data = <<>> THEN <<>>
             ELSE LET base == Separate(RemoveBuffer(BasicCalculations(filtered_data), sd))
                  IN  IF threshold.some
                      THEN PullbackColumns(base, Rat(threshold.v), ptype)
                      ELSE base

Col(frame, c) == [i \in DOMAIN frame |-> frame[i][c]]
IntQ(i) == QRat(Rat(i))

\* the suffix loop assigning np.nan instead of 0
SuffixLoopNaN(name) == [k \in {Key(name, s) : s \in Suffixes} |-> QRat(NaN)]
\* the suffix loops of lines 249-251, 259-261, ...: stats[f'{name}_{suffix}'] = 0
SuffixLoopZero(name) == [k \in {Key(name, s) : s \in Suffixes} |-> QZero]

\* PartitionStats whose else branch writes the gap-up keys for every partition
PartitionStatsGapUpKeys(part, colPoints, colPct, namePoints, namePct) ==
    IF part # <<>>
    THEN Update(calc_stats(Col(part, colPoints), namePoints, TRUE),
                calc_stats(Col(part, colPct), namePct, TRUE))
    ELSE Update(SuffixLoopZero("gap_up_points"), SuffixLoopZero("gap_up_pct"))

\* one "if not part.empty: ... else: ..." block of lines 243-301
PartitionStats(part, colPoints, colPct, namePoints, namePct) ==
    IF part # <<>>
    THEN Update(calc_stats(Col(part, colPoints), namePoints, TRUE),
                calc_stats(Col(part, colPct), namePct, TRUE))
    ELSE Update(SuffixLoopZero(namePoints), SuffixLoopZero(namePct))

\* gap_up_data selecting with >= 0, zero-gap bars included
gap_up_data_ge(frame) == SelectSeq(frame, LAMBDA r : FGe(r.Gap_Points, Zero))
gap_up_data(frame) == SelectSeq(frame, LAMBDA r : FGt(r.Gap_Points, Zero))
gap_down_data(frame) == SelectSeq(frame, LAMBDA r : FLt(r.Gap_Points, Zero))
green_prev_data(frame) == SelectSeq(frame, LAMBDA r : FGt(r.Change_From_Prev_Close_Points, Zero))
red_prev_data(frame) == SelectSeq(frame, LAMBDA r : FLt(r.Change_From_Prev_Close_Points, Zero))
green_open_data(frame) == SelectSeq(frame, LAMBDA r : FGt(r.Change_From_Open_Points, Zero))
\* red_open_data selecting with <= 0, flat bars included
red_open_data_le(frame) == SelectSeq(frame, LAMBDA r : ~FGt(r.Change_From_Open_Points, Zero))
red_open_data(frame) == SelectSeq(frame, LAMBDA r : FLt(r.Change_From_Open_Points, Zero))

\* lines 231-301: the blocks in the order stats.update receives them
BaseStats(frame) ==
    UpdateAll(EmptyDict, <<
        calc_stats(Col(frame, "Range_Points"), "range_points", TRUE),
        calc_stats(Col(frame, "Range_Pct"), "range_pct", TRUE),
        calc_stats(Col(frame, "Body_Points"), "body_points", TRUE),
        calc_stats(Col(frame, "Body_Pct"), "body_pct", TRUE),
        calc_stats(Col(frame, "Net_Change_Points"), "net_change_points", FALSE),
        calc_stats(Col(frame, "Net_Change_Pct"), "net_change_pct", FALSE),
        PartitionStats(gap_up_data(frame), "Gap_Up_Points", "Gap_Up_Pct",
                       "gap_up_points", "gap_up_pct"),
        PartitionStats(gap_down_data(frame), "Gap_Down_Points", "Gap_Down_Pct",
                       "gap_down_points", "gap_down_pct"),
        PartitionStats(green_prev_data(frame), "Green_From_Prev_Points",
                       "Green_From_Prev_Pct", "green_prev_points", "green_prev_pct"),
        PartitionStats(red_prev_data(frame), "Red_From_Prev_Points",
                       "Red_From_Prev_Pct", "red_prev_points", "red_prev_pct"),
        PartitionStats(green_open_data(frame), "Green_From_Open_Points",
                       "Green_From_Open_Pct", "green_open_points", "green_open_pct"),
        PartitionStats(red_open_data(frame), "Red_From_Open_Points",
                       "Red_From_Open_Pct", "red_open_points", "red_open_pct")>>)

\* one direction of lines 305-327
PullbackStats(frame, colPoints, colPct, namePoints, namePct, nameCount) ==
    LET pullback_data == DropNa(ReplaceInf(Col(frame, colPoints)))
    IN  IF Len(pullback_data) > 0
        THEN Update(Update(calc_stats(pullback_data, namePoints, FALSE),
                           calc_stats(DropNa(ReplaceInf(Col(frame, colPct))), namePct, FALSE)),
                    nameCount :> IntQ(Len(pullback_data)))
        ELSE Update(Update(SuffixLoopZero(namePoints), SuffixLoopZero(namePct)),
                    nameCount :> QZero)

\* lines 330-331
ThresholdCounts(frame, threshold, ptype) ==
    ("green_threshold_count" :>
        IntQ(Len(SelectSeq(frame, LAMBDA r : green_threshold_mask(r, threshold, ptype))))) @@
    ("red_threshold_count" :>
        IntQ(Len(SelectSeq(frame, LAMBDA r : red_threshold_mask(r, threshold, ptype)))))

\* lines 334-341
CountStats(frame) ==
    LET total == Len(frame)
        green == Len(green_open_data(frame))
        red == Len(red_open_data(frame))
        up == Len(gap_up_data(frame))
        down == Len(gap_down_data(frame))
    IN  ("total_candles" :> IntQ(total)) @@
        ("green_candles_count" :> IntQ(green)) @@
        ("red_candles_count" :> IntQ(red)) @@
        ("flat_candles_count" :> IntQ(total - green - red)) @@
        ("green_candles_percentage" :>
            QRat(IF total > 0 THEN FMul(FDiv(Rat(green), Rat(total)), Rat(100)) ELSE Zero)) @@
        ("gap_up_candles" :> IntQ(up)) @@
        ("gap_down_candles" :> IntQ(down)) @@
        ("no_gap_candles" :> IntQ(total - up - down))

\* lines 303-331
PullbackBlocks(frame, threshold, ptype) ==
    <<PullbackStats(frame, "Green_Pullback_Points", "Green_Pullback_Pct",
                    "green_pullback_points", "green_pullback_pct", "green_pullback_count"),
      PullbackStats(frame, "Red_Pullback_Points", "Red_Pullback_Pct",
                    "red_pullback_points", "red_pullback_pct", "red_pullback_count"),
      ThresholdCounts(frame, threshold, ptype)>>

\* lines 227-343 over the derived frame
Summarize(frame, threshold, ptype) ==
    UpdateAll(BaseStats(frame),
              (IF threshold.some THEN PullbackBlocks(frame, Rat(threshold.v), ptype) ELSE <<>>)
              \o <<CountStats(frame)>>)

\* whether the call returns {} at line 100 or line 112
ReturnsEmpty(d, sd, ed) == d = <<>> \/ FilterWindow(d, sd, ed) = <<>>

\* ---------------------------------------- working.py: calculate_statistics
\* working.py lines 134-146: one bound of the loop; there is no test of
\* std_val, and NaN < 0 is False, so a NaN deviation gives NaN bounds
WorkingStdBound(mean_val, std_val, i, side, is_always_positive) ==
    IF side = "lower"
    THEN LET lower == QLin(mean_val, -i, std_val)
         IN  IF is_always_positive /\ QLtZero(lower) THEN QZero ELSE lower
    ELSE QLin(mean_val, i, std_val)

\* working.py lines 125-160: the nested helper calc_stats
working_calc_stats(series, name, is_always_positive) ==
    LET series_clean == DropNa(ReplaceInf(series))
    IN  IF Len(series_clean) > 0
        THEN LET mean_val == SeriesMean(series_clean)
                 std_val == SeriesStd(series_clean)
                 B(i, side) == WorkingStdBound(mean_val, std_val, i, side, is_always_positive)
             IN  (Key(name, "min") :> QRat(SeqMin(series_clean))) @@
                 (Key(name, "max") :> QRat(SeqMax(series_clean))) @@
                 (Key(name, "avg") :> QRat(mean_val)) @@
                 (Key(name, "std") :> std_val) @@
                 (Key(name, "1std_lower") :> B(1, "lower")) @@
                 (Key(name, "1std_upper") :> B(1, "upper")) @@
                 (Key(name, "2std_lower") :> B(2, "lower")) @@
                 (Key(name, "2std_upper") :> B(2, "upper")) @@
                 (Key(name, "3std_lower") :> B(3, "lower")) @@
                 (Key(name, "3std_upper") :> B(3, "upper"))
        ELSE ZeroBlock(name)

\* working.py lines 76-97: the columns computed on the buffered frame, those
\* of main.py without Net_Change_Points and Net_Change_Pct
WorkingBasicCalculations(filtered) ==
    [i \in DOMAIN filtered |->
        LET b == filtered[i]
            O == Rat(b.Open)
            H == Rat(b.High)
            L == Rat(b.Low)
            C == Rat(b.Close)
            Prev_Close == IF i = 1 THEN NaN ELSE Rat(filtered[i - 1].Close)
        IN  [date |-> b.date, Open |-> O, High |-> H, Low |-> L, Close |-> C,
             Range_Points |-> FSub(H, L),
             Range_Pct |-> Pct(FSub(H, L), O),
             Body_Points |-> FAbs(FSub(C, O)),
             Body_Pct |-> Pct(FAbs(FSub(C, O)), O),
             Prev_Close |-> Prev_Close,
             Gap_Points |-> FSub(O, Prev_Close),
             Gap_Pct |-> Pct(FSub(O, Prev_Close), Prev_Close),
             Change_From_Prev_Close_Points |-> FSub(C, Prev_Close),
             Change_From_Prev_Close_Pct |-> Pct(FSub(C, Prev_Close), Prev_Close)]]

\* working.py lines 52-119: the frame the statistics are taken from (<<>> on an
\* early return); the window filter (lines 58-62), the removal of the buffer
\* row (lines 99-100) and the companion columns (lines 104-119) are the
\* statements of main.py
WorkingFrame(d, sd, ed) ==
    IF d = <<>> THEN <<>>
    ELSE LET filtered_data == FilterWindow(d, sd, ed)
         IN  IF filtered_data = <<>> THEN <<>>
             ELSE Separate(RemoveBuffer(WorkingBasicCalculations(filtered_data), sd))

\* working.py lines 162-228: the blocks in the order stats.update receives
\* them, each with the rows it is taken from, its column and its name
WorkingBlocks ==
    <<[rows |-> "all", col |-> "Range_Points", name |-> "range_points"],
      [rows |-> "all", col |-> "Range_Pct", name |-> "range_pct"],
      [rows |-> "all", col |-> "Body_Points", name |-> "body_points"],
      [rows |-> "all", col |-> "Body_Pct", name |-> "body_pct"],
      [rows |-> "gap_up", col |-> "Gap_Up_Points", name |-> "gap_up_points"],
      [rows |-> "gap_up", col |-> "Gap_Up_Pct", name |-> "gap_up_pct"],
      [rows |-> "gap_down", col |-> "Gap_Down_Points", name |-> "gap_down_points"],
      [rows |-> "gap_down", col |-> "Gap_Down_Pct", name |-> "gap_down_pct"],
      [rows |-> "green_prev", col |-> "Green_From_Prev_Points", name |-> "green_prev_points"],
      [rows |-> "green_prev", col |-> "Green_From_Prev_Pct", name |-> "green_prev_pct"],
      [rows |-> "red_prev", col |-> "Red_From_Prev_Points", name |-> "red_prev_points"],
      [rows |-> "red_prev", col |-> "Red_From_Prev_Pct", name |-> "red_prev_pct"],
      [rows |-> "green_open", col |-> "Green_From_Open_Points", name |-> "green_open_points"],
      [rows |-> "green_open", col |-> "Green_From_Open_Pct", name |-> "green_open_pct"],
      [rows |-> "red_open", col |-> "Red_From_Open_Points", name |-> "red_open_points"],
      [rows |-> "red_open", col |-> "Red_From_Open_Pct", name |-> "red_open_pct"]>>

\* the frame, or one of the selections of working.py lines 171, 180, 190, 199,
\* 209 and 218, which are those of main.py
WorkingRows(frame, rows) ==
    CASE rows = "all" -> frame
      [] rows = "gap_up" -> gap_up_data(frame)
      [] rows = "gap_down" -> gap_down_data(frame)
      [] rows = "green_prev" -> green_prev_data(frame)
      [] rows = "red_prev" -> red_prev_data(frame)
      [] rows = "green_open" -> green_open_data(frame)
      [] rows = "red_open" -> red_open_data(frame)

\* one stats.update(calc_stats(...)) of working.py lines 163-168, or one half
\* of an "if not part.empty: ... else: ..." block of lines 170-228
WorkingBlock(frame, rows, col, name) ==
    IF rows = "all" \/ WorkingRows(frame, rows) # <<>>
    THEN working_calc_stats(Col(WorkingRows(frame, rows), col), name, TRUE)
    ELSE SuffixLoopZero(name)

\* working.py lines 122-240 over the derived frame; the counts of lines
\* 230-238 are the statements of main.py's lines 334-341
WorkingSummarize(frame) ==
    UpdateAll(EmptyDict,
              [j \in DOMAIN WorkingBlocks |->
                  WorkingBlock(frame, WorkingBlocks[j].rows, WorkingBlocks[j].col,
                               WorkingBlocks[j].name)]
              \o <<CountStats(frame)>>)

\* ------------------------------------------------------------ calendar
\* Day 1 is Monday 1 January of a common year; weekdays count Monday = 0.
Weekday(d) == (d - 1) % 7
MonthStarts == {1, 32, 60, 91, 121}
MonthStart(d) == CHOOSE m \in MonthStarts : m <= d /\ \A x \in MonthStarts : x <= d => x <= m

\* ------------------------------------------------------- resample_data
\* lines 35-36: each name selects the pandas rule W-<DAY>, weeks ending on that day
day_map == [Monday |-> 0, Tuesday |-> 1, Wednesday |-> 2, Thursday |-> 3,
            Friday |-> 4, Saturday |-> 5, Sunday |-> 6]

\* the NaN an aggregation leaves in a column of an empty bin
NA == -1

\* WeekLabel with label='left': the bin is named by the anchor day before it
WeekLabelLeft(d, anchor) == d + ((anchor - Weekday(d)) % 7) - 7
\* resample('W-<DAY>'): bins closed and labelled on the right, so a bar belongs
\* to the first anchor weekday on or after its date
WeekLabel(d, anchor) == d + ((anchor - Weekday(d)) % 7)
\* resample('MS'): bins closed and labelled on the left
MonthLabel(d) == MonthStart(d)

BinLabel(d, freq) == IF freq.rule = "W" THEN WeekLabel(d, freq.anchor) ELSE MonthLabel(d)

\* the labels of every bin from the first bar's to the last bar's
BinLabels(d, freq) ==
    IF d = <<>> THEN {}
    ELSE LET first == BinLabel(d[1].date, freq)
             last == BinLabel(d[Len(d)].date, freq)
         IN  IF freq.rule = "W"
             THEN {l \in first .. last : (l - first) % 7 = 0}
             ELSE {l \in first .. last : l \in MonthStarts}

RECURSIVE MaxOf(_, _)
MaxOf(d, c) == IF Len(d) = 1 THEN d[1][c]
               ELSE LET r == MaxOf(Tail(d), c) IN IF d[1][c] > r THEN d[1][c] ELSE r
RECURSIVE MinOf(_, _)
MinOf(d, c) == IF Len(d) = 1 THEN d[1][c]
               ELSE LET r == MinOf(Tail(d), c) IN IF d[1][c] < r THEN d[1][c] ELSE r
RECURSIVE SumOf(_, _)
SumOf(d, c) == IF d = <<>> THEN 0 ELSE d[1][c] + SumOf(Tail(d), c)

\* Aggregate with 'Close': 'first' instead of 'last'
AggregateCloseFirst(bin, label) ==
    [date |-> label,
     Open |-> IF bin = <<>> THEN NA ELSE bin[1].Open,
     High |-> IF bin = <<>> THEN NA ELSE MaxOf(bin, "High"),
     Low |-> IF bin = <<>> THEN NA ELSE MinOf(bin, "Low"),
     Close |-> IF bin = <<>> THEN NA ELSE bin[1].Close,
     Volume |-> SumOf(bin, "Volume")]

\* lines 42-47: first / max / min / last are NaN on an empty bin, sum is 0
Aggregate(bin, label) ==
    [date |-> label,
     Open |-> IF bin = <<>> THEN NA ELSE bin[1].Open,
     High |-> IF bin = <<>> THEN NA ELSE MaxOf(bin, "High"),
     Low |-> IF bin = <<>> THEN NA ELSE MinOf(bin, "Low"),
     Close |-> IF bin = <<>> THEN NA ELSE bin[Len(bin)].Close,
     Volume |-> SumOf(bin, "Volume")]

\* line 48: .dropna() drops the rows that hold a NaN
DropNaRows(rows) ==
    SelectSeq(rows, LAMBDA r : r.Open # NA /\ r.High # NA /\ r.Low # NA /\ r.Close # NA)

Resample(d, freq) ==
    LET labels == SortedSeq(BinLabels(d, freq))
    IN  DropNaRows([i \in DOMAIN labels |->
            Aggregate(SelectSeq(d, LAMBDA b : BinLabel(b.date, freq) = labels[i]), labels[i])])

\* lines 31-50; day_map[start_day] raises KeyError on an unknown name, and any
\* frequency other than "Weekly" takes the else branch
resample_data(d, frequency, start_day) ==
    IF frequency = "Weekly"
    THEN IF start_day \in DOMAIN day_map
         THEN [raised |-> FALSE, value |-> Resample(d, [rule |-> "W", anchor |-> day_map[start_day]])]
         ELSE [raised |-> TRUE, value |-> <<>>]
    ELSE [raised |-> FALSE, value |-> Resample(d, [rule |-> "MS", anchor |-> 0])]

\* ------------------------------------------------------------ inputs
\* The candles a data source can return (low <= open, close <= high, nothing
\* negative): a flat bar, a red and a green bar whose range exceeds the body,
\* a bar opening at zero and a bar closing at zero.
Candles ==
    {[Open |-> 1, High |-> 1, Low |-> 1, Close |-> 1, Volume |-> 0],
     [Open |-> 3, High |-> 3, Low |-> 1, Close |-> 2, Volume |-> 1],
     [Open |-> 2, High |-> 3, Low |-> 1, Close |-> 3, Volume |-> 2],
     [Open |-> 0, High |-> 1, Low |-> 0, Close |-> 1, Volume |-> 3],
     [Open |-> 1, High |-> 1, Low |-> 0, Close |-> 0, Volume |-> 4]}

DateSeqs(days, maxBars) ==
    {SortedSeq(S) : S \in {T \in SUBSET days : Cardinality(T) <= maxBars}}

MkBars(dates, shapes) ==
    [i \in DOMAIN dates |->
        [date |-> dates[i], Open |-> shapes[i].Open, High |-> shapes[i].High,
         Low |-> shapes[i].Low, Close |-> shapes[i].Close, Volume |-> shapes[i].Volume]]

BarSeqsOn(days, maxBars) ==
    UNION {{MkBars(ds, sh) : sh \in [DOMAIN ds -> Candles]} : ds \in DateSeqs(days, maxBars)}

BarSeqs == BarSeqsOn(1 .. MaxDay, MaxBars)
DailySeqs == BarSeqsOn(ResampleFirstDay .. (ResampleFirstDay + ResampleSpan - 1), MaxResampleBars)

\* two consecutive bars at ordinary price levels: a green bar, then a red bar
\* opening above the first bar's close
ExampleBars ==
    <<[Open |-> 100, High |-> 105, Low |-> 98, Close |-> 102, Volume |-> 1],
      [Open |-> 103, High |-> 104, Low |-> 101, Close |-> 101, Volume |-> 2]>>
ExampleSeqs ==
    {MkBars(ds, ExampleBars) : ds \in {q \in DateSeqs(1 .. MaxDay, 2) : Len(q) = 2}}

Windows ==
    {<<None, None>>} \cup
    {<<Some(s), Some(e)>> : <<s, e>> \in {w \in (1 .. MaxDay) \X (1 .. MaxDay) : w[1] <= w[2]}}

\* the Threshold Percentage widget's maximum (line 483), and a value above it
MaxThreshold == 50
Thresholds == {MaxThreshold, 2 * MaxThreshold}

RECURSIVE SeqsUpTo(_, _)
SeqsUpTo(S, n) ==
    IF n = 0 THEN {<<>>}
    ELSE LET shorter == SeqsUpTo(S, n - 1)
         IN  shorter \cup {Append(q, x) : q \in {t \in shorter : Len(t) = n - 1}, x \in S}

SeriesValues == {Rat(i) : i \in (-MaxVal) .. MaxVal} \cup {NaN, PInf, NInf}

\* ------------------------------------------------------------ state
VARIABLES
    pc,                  \* where the run stands
    widgets,             \* the selections main() and resample_data read
    data,                \* the bars: load_data's result, then the call's argument
    start_date,          \* further arguments of calculate_statistics
    end_date,
    pullback_threshold,
    pullback_type,
    df,                  \* calculate_statistics' frame when it returns
    stats,               \* the dict it returns
    resampled,           \* resample_data's outcome, and that of a second pass
    resampled_again,
    series,              \* calc_stats' arguments and result
    is_always_positive,
    block,
    earlier,             \* the caller's bars and the first call it made with them
    pending,             \* the aggregations that have not written their block yet
    working_df,          \* working.py's calculate_statistics' frame when it returns
    working_stats        \* the dict it returns

vars == <<pc, widgets, data, start_date, end_date, pullback_threshold, pullback_type,
          df, stats, resampled, resampled_again, series, is_always_positive, block, earlier, pending,
          working_df, working_stats>>
workingVars == <<working_df, working_stats>>
args == <<data, start_date, end_date, pullback_threshold, pullback_type>>
resampleVars == <<resampled, resampled_again>>
calcVars == <<series, is_always_positive, block>>

NoWidgets == [frequency |-> "Daily", start_day |-> "", enable_pullback |-> FALSE,
              threshold |-> MaxThreshold, threshold_type |-> "Body"]
NoResample == [raised |-> FALSE, value |-> <<>>]

NoCall == [made |-> FALSE, between |-> FALSE, data |-> <<>>, start_date |-> None, end_date |-> None,
           pullback_threshold |-> None, pullback_type |-> "body", stats |-> EmptyDict]

IdleResample == resampled = NoResample /\ resampled_again = NoResample
IdleCalc == series = <<>> /\ is_always_positive = FALSE /\ block = EmptyDict
IdleCall ==
    /\ start_date = None /\ end_date = None
    /\ pullback_threshold = None /\ pullback_type = "body"
    /\ df = <<>> /\ stats = EmptyDict

\* a call of the entry point calculate_statistics with any arguments
InitCall ==
    /\ pc = "call"
    /\ widgets = NoWidgets
    /\ data \in BarSeqs \cup ExampleSeqs
    /\ \E w \in Windows : start_date = w[1] /\ end_date = w[2]
    /\ \/ pullback_threshold = None /\ pullback_type = "body"
       \/ /\ pullback_threshold \in {Some(t) : t \in Thresholds}
          /\ pullback_type \in {"body", "candle"}
          \* a percentage above the widget's maximum is passed in body mode only
          /\ pullback_threshold.v > MaxThreshold => pullback_type = "body"
    /\ df = <<>>
    /\ stats = EmptyDict
    /\ IdleResample /\ IdleCalc
    /\ earlier = NoCall /\ pending = {}
    /\ working_df = <<>> /\ working_stats = EmptyDict

\* calculate_statistics, lines 97-343
calculate ==
    /\ pc = "call"
    /\ df' = DerivedFrame(data, start_date, end_date, pullback_threshold, pullback_type)
    /\ stats' = IF ReturnsEmpty(data, start_date, end_date) THEN EmptyDict
                ELSE Summarize(df', pullback_threshold, pullback_type)
    /\ pc' = "done"
    /\ data' = CallerData(data, start_date, end_date)
    /\ UNCHANGED <<widgets, start_date, end_date, pullback_threshold, pullback_type,
                   resampleVars, calcVars, earlier, pending, workingVars>>

Next == calculate

Spec == InitCall /\ [][Next]_vars

\* ------------------------------------------------------------ several calls
CallSeqs == BarSeqsOn(1 .. MaxCallDay, MaxCallBars)
CallWindows ==
    {<<None, None>>} \cup
    {<<Some(s), Some(MaxCallDay)>> : s \in 1 .. MaxCallDay}
CallThresholds == {None, Some(MaxThreshold)}

\* a caller holding one frame, about to call calculate_statistics with it
InitCalls ==
    /\ pc = "call"
    /\ widgets = NoWidgets
    /\ data \in CallSeqs
    /\ \E w \in CallWindows : start_date = w[1] /\ end_date = w[2]
    /\ pullback_threshold \in CallThresholds /\ pullback_type = "body"
    /\ df = <<>>
    /\ stats = EmptyDict
    /\ IdleResample /\ IdleCalc
    /\ earlier = [NoCall EXCEPT !.data = data]
    /\ pending = {}
    /\ working_df = <<>> /\ working_stats = EmptyDict

SameArguments ==
    /\ data = earlier.data
    /\ start_date = earlier.start_date /\ end_date = earlier.end_date
    /\ pullback_threshold = earlier.pullback_threshold
    /\ pullback_type = earlier.pullback_type

\* the caller notes its first call's arguments and result, and calls again
\* with the frame it holds and any window and threshold
call_again ==
    /\ pc = "done"
    /\ earlier' =
          IF earlier.made
          THEN [earlier EXCEPT !.between = @ \/ ~SameArguments]
          ELSE [earlier EXCEPT !.made = TRUE,
                               !.start_date = start_date, !.end_date = end_date,
                               !.pullback_threshold = pullback_threshold,
                               !.pullback_type = pullback_type, !.stats = stats]
    /\ \E w \in CallWindows : start_date' = w[1] /\ end_date' = w[2]
    /\ pullback_threshold' \in CallThresholds
    /\ df' = <<>>
    /\ stats' = EmptyDict
    /\ pc' = "call"
    /\ UNCHANGED <<widgets, data, pullback_type, resampleVars, calcVars, pending, workingVars>>

SpecCalls == InitCalls /\ [][calculate \/ call_again]_vars

\* ------------------------------------------------------------ aggregations as tasks
\* the aggregations of lines 232-331, each named by the keys it writes
MetricTasks ==
    {"range_points", "range_pct", "body_points", "body_pct",
     "net_change_points", "net_change_pct"}
PartitionTasks == {"gap_up", "gap_down", "green_prev", "red_prev", "green_open", "red_open"}
PullbackTasks == {"green_pullback", "red_pullback", "threshold_count"}
TaskNames(threshold) ==
    MetricTasks \cup PartitionTasks \cup (IF threshold.some THEN PullbackTasks ELSE {})

\* what one aggregation computes from the derived frame
TaskBlock(t, frame, threshold, ptype) ==
    CASE t = "range_points" -> calc_stats(Col(frame, "Range_Points"), "range_points", TRUE)
      [] t = "range_pct" -> calc_stats(Col(frame, "Range_Pct"), "range_pct", TRUE)
      [] t = "body_points" -> calc_stats(Col(frame, "Body_Points"), "body_points", TRUE)
      [] t = "body_pct" -> calc_stats(Col(frame, "Body_Pct"), "body_pct", TRUE)
      [] t = "net_change_points" ->
            calc_stats(Col(frame, "Net_Change_Points"), "net_change_points", FALSE)
      [] t = "net_change_pct" ->
            calc_stats(Col(frame, "Net_Change_Pct"), "net_change_pct", FALSE)
      [] t = "gap_up" ->
            PartitionStats(gap_up_data(frame), "Gap_Up_Points", "Gap_Up_Pct",
                           "gap_up_points", "gap_up_pct")
      [] t = "gap_down" ->
            PartitionStats(gap_down_data(frame), "Gap_Down_Points", "Gap_Down_Pct",
                           "gap_down_points", "gap_down_pct")
      [] t = "green_prev" ->
            PartitionStats(green_prev_data(frame), "Green_From_Prev_Points",
                           "Green_From_Prev_Pct", "green_prev_points", "green_prev_pct")
      [] t = "red_prev" ->
            PartitionStats(red_prev_data(frame), "Red_From_Prev_Points",
                           "Red_From_Prev_Pct", "red_prev_points", "red_prev_pct")
      [] t = "green_open" ->
            PartitionStats(green_open_data(frame), "Green_From_Open_Points",
                           "Green_From_Open_Pct", "green_open_points", "green_open_pct")
      [] t = "red_open" ->
            PartitionStats(red_open_data(frame), "Red_From_Open_Points",
                           "Red_From_Open_Pct", "red_open_points", "red_open_pct")
      [] t = "green_pullback" ->
            PullbackStats(frame, "Green_Pullback_Points", "Green_Pullback_Pct",
                          "green_pullback_points", "green_pullback_pct", "green_pullback_count")
      [] t = "red_pullback" ->
            PullbackStats(frame, "Red_Pullback_Points", "Red_Pullback_Pct",
                          "red_pullback_points", "red_pullback_pct", "red_pullback_count")
      [] t = "threshold_count" -> ThresholdCounts(frame, Rat(threshold.v), ptype)

\* the two example bars on consecutive days
TaskSeqs == {MkBars(<<1, 2>>, ExampleBars)}

InitTasks ==
    /\ pc = "call"
    /\ widgets = NoWidgets
    /\ data \in TaskSeqs
    /\ start_date = None /\ end_date = None
    /\ pullback_threshold \in CallThresholds /\ pullback_type = "body"
    /\ df = <<>>
    /\ stats = EmptyDict
    /\ IdleResample /\ IdleCalc
    /\ earlier = NoCall /\ pending = {}
    /\ working_df = <<>> /\ working_stats = EmptyDict

\* lines 97-228: the derived frame is built, then every aggregation is started
fan_out ==
    /\ pc = "call"
    /\ df' = DerivedFrame(data, start_date, end_date, pullback_threshold, pullback_type)
    /\ stats' = EmptyDict
    /\ IF ReturnsEmpty(data, start_date, end_date)
       THEN pc' = "done" /\ pending' = {}
       ELSE pc' = "running" /\ pending' = TaskNames(pullback_threshold)
    /\ UNCHANGED <<widgets, args, resampleVars, calcVars, earlier, workingVars>>

\* any aggregation still pending finishes and writes its block
run_task ==
    /\ pc = "running"
    /\ \E t \in pending :
          /\ stats' = Update(stats, TaskBlock(t, df, pullback_threshold, pullback_type))
          /\ pending' = pending \ {t}
    /\ UNCHANGED <<pc, widgets, args, df, resampleVars, calcVars, earlier, workingVars>>

\* lines 334-343, once every aggregation has finished
assemble ==
    /\ pc = "running"
    /\ pending = {}
    /\ stats' = Update(stats, CountStats(df))
    /\ pc' = "assembled"
    /\ UNCHANGED <<widgets, args, df, resampleVars, calcVars, earlier, pending, workingVars>>

SpecTasks == InitTasks /\ [][fan_out \/ run_task \/ assemble]_vars

\* ------------------------------------------------------------ both implementations
\* the same bars and window given to main.py's calculate_statistics with
\* pullback_threshold=None and to working.py's calculate_statistics
InitWorking ==
    /\ pc = "call"
    /\ widgets = NoWidgets
    /\ data \in BarSeqs \cup ExampleSeqs
    /\ \E w \in Windows : start_date = w[1] /\ end_date = w[2]
    /\ pullback_threshold = None /\ pullback_type = "body"
    /\ df = <<>>
    /\ stats = EmptyDict
    /\ IdleResample /\ IdleCalc
    /\ earlier = NoCall /\ pending = {}
    /\ working_df = <<>> /\ working_stats = EmptyDict

\* working.py's calculate_statistics, lines 52-240, on the arguments main.py's got
working_calculate_statistics ==
    /\ pc = "done"
    /\ working_df' = WorkingFrame(data, start_date, end_date)
    /\ working_stats' = IF ReturnsEmpty(data, start_date, end_date) THEN EmptyDict
                        ELSE WorkingSummarize(working_df')
    /\ pc' = "compared"
    /\ UNCHANGED <<widgets, args, df, stats, resampleVars, calcVars, earlier, pending>>

SpecWorking == InitWorking /\ [][calculate \/ working_calculate_statistics]_vars

\* ------------------------------------------------------------ main
\* what the page offers: Frequency and its start day (lines 461-469), the
\* pullback checkbox, percentage and Threshold Type (lines 474-495)
UiFrequencies == {<<"Daily", "">>, <<"Weekly", "Wednesday">>, <<"Monthly", 1>>}
UiWidgets ==
    {[frequency |-> f[1], start_day |-> f[2], enable_pullback |-> p[1],
      threshold |-> MaxThreshold, threshold_type |-> p[2]] :
        f \in UiFrequencies, p \in {<<FALSE, "Body">>, <<TRUE, "Body">>, <<TRUE, "Candle">>}}

\* the page before Analyze is pressed; data stands for what load_data will return
InitUi ==
    /\ pc = "ui"
    /\ widgets \in UiWidgets
    /\ data \in BarSeqs
    /\ \E w \in Windows : w[1].some /\ start_date = w[1] /\ end_date = w[2]
    /\ pullback_threshold = None /\ pullback_type = "body"
    /\ df = <<>>
    /\ stats = EmptyDict
    /\ IdleResample /\ IdleCalc
    /\ earlier = NoCall /\ pending = {}
    /\ working_df = <<>> /\ working_stats = EmptyDict

\* main, lines 477-511: Analyze pressed, up to the call of calculate_statistics
main ==
    /\ pc = "ui"
    /\ IF start_date.v < end_date.v /\ data # <<>>
       THEN LET r == IF widgets.frequency # "Daily"
                     THEN resample_data(data, widgets.frequency, widgets.start_day)
                     ELSE [raised |-> FALSE, value |-> data]
            IN  /\ data' = r.value
                /\ pullback_threshold' =
                       IF widgets.enable_pullback THEN Some(widgets.threshold) ELSE None
                /\ pullback_type' =
                       IF widgets.enable_pullback THEN widgets.threshold_type ELSE "body"
                /\ pc' = IF r.raised THEN "error" ELSE "call"
       ELSE /\ pc' = "error"
            /\ UNCHANGED <<data, pullback_threshold, pullback_type>>
    /\ UNCHANGED <<widgets, start_date, end_date, df, stats, resampleVars, calcVars, earlier,
                   pending, workingVars>>

SpecMain == InitUi /\ [][main \/ calculate]_vars

\* ------------------------------------------------------------ resampling twice
ResampleRequests ==
    {<<"Weekly", d>> : d \in (DOMAIN day_map) \cup {"Funday"}} \cup
    {<<"Monthly", 1>>, <<"Quarterly", 1>>}

InitResample ==
    /\ pc = "resample"
    /\ \E f \in ResampleRequests :
          widgets = [NoWidgets EXCEPT !.frequency = f[1], !.start_day = f[2]]
    /\ data \in DailySeqs
    /\ IdleCall /\ IdleResample /\ IdleCalc
    /\ earlier = NoCall /\ pending = {}
    /\ working_df = <<>> /\ working_stats = EmptyDict

\* resample_data(data, frequency, start_day)
resample ==
    /\ pc = "resample"
    /\ resampled' = resample_data(data, widgets.frequency, widgets.start_day)
    /\ pc' = IF resampled'.raised THEN "raised" ELSE "resampled"
    /\ UNCHANGED <<widgets, args, df, stats, resampled_again, calcVars, earlier, pending,
                   workingVars>>

\* resample_data applied to its own output, same frequency and start day
resample_again ==
    /\ pc = "resampled"
    /\ resampled_again' = resample_data(resampled.value, widgets.frequency, widgets.start_day)
    /\ pc' = "resampled_again"
    /\ UNCHANGED <<widgets, args, df, stats, resampled, calcVars, earlier, pending, workingVars>>

SpecResample == InitResample /\ [][resample \/ resample_again]_vars

\* ------------------------------------------------------------ calc_stats alone
InitCalc ==
    /\ pc = "calc"
    /\ widgets = NoWidgets
    /\ data = <<>>
    /\ IdleCall /\ IdleResample
    /\ series \in SeqsUpTo(SeriesValues, MaxLen)
    /\ is_always_positive \in BOOLEAN
    /\ block = EmptyDict
    /\ earlier = NoCall /\ pending = {}
    /\ working_df = <<>> /\ working_stats = EmptyDict

\* calc_stats(series, 'metric', is_always_positive)
summarize ==
    /\ pc = "calc"
    /\ block' = calc_stats(series, "metric", is_always_positive)
    /\ pc' = "summarized"
    /\ UNCHANGED <<widgets, args, df, stats, resampleVars, series, is_always_positive,
                   earlier, pending, workingVars>>

SpecCalc == InitCalc /\ [][summarize]_vars

\* ------------------------------------------------------------ properties
Returned == pc = "done"
Count(k) == stats[k].m.n

\* the bars of the argument dated inside the analysis window [start, end]
InWindowBars ==
    SelectSeq(data, LAMBDA b : (start_date.some => b.date >= start_date.v)
                               /\ (end_date.some => b.date <= end_date.v))
\* the bars of the argument dated before the analysis start
BarsBeforeStart == SelectSeq(data, LAMBDA b : start_date.some /\ b.date < start_date.v)

\* C1: when the bars passed in hold a bar dated before the analysis start, the
\* first bar inside the window has the close of the latest such bar as its
\* Prev_Close, so its gap and its change from the previous close are defined.
C1_FirstBarHasPredecessor ==
    (Returned /\ start_date.some /\ end_date.some
              /\ BarsBeforeStart # <<>> /\ InWindowBars # <<>>)
    => /\ df # <<>>
       /\ df[1].date = InWindowBars[1].date
       /\ df[1].Prev_Close = Rat(BarsBeforeStart[Len(BarsBeforeStart)].Close)
       /\ ~IsNaN(df[1].Gap_Points)
       /\ ~IsNaN(df[1].Change_From_Prev_Close_Points)

AllFinite(q) == \A i \in DOMAIN q : IsFinite(q[i])
AllEqual(q) == \A i, j \in DOMAIN q : q[i] = q[j]
BoundKeys(name) == {Key(name, BoundSuffix(i, side)) : i \in 1 .. 3, side \in {"lower", "upper"}}

\* C2: for a non-empty series of finite values whose standard deviation is 0 or
\* undefined (one value, or all values identical), calc_stats reports std = 0
\* and all six sigma bounds equal to the mean.
C2_DegenerateBandsCollapse ==
    (pc = "summarized" /\ series # <<>> /\ AllFinite(series) /\ AllEqual(series))
    => /\ block[Key("metric", "std")] = QZero
       /\ block[Key("metric", "avg")] = QRat(series[1])
       /\ \A k \in BoundKeys("metric") : block[k] = QRat(series[1])

C2_Witness ==
    /\ pc = "summarized"
    /\ Len(series) = 1 /\ IsFinite(series[1]) /\ series[1] # Zero
    /\ block[Key("metric", "1std_lower")] = QRat(series[1])

\* the metrics calculate_statistics summarizes with is_always_positive=True
NonNegativeMetrics ==
    {"range_points", "range_pct", "body_points", "body_pct",
     "gap_up_points", "gap_up_pct", "gap_down_points", "gap_down_pct",
     "green_prev_points", "green_prev_pct", "red_prev_points", "red_prev_pct",
     "green_open_points", "green_open_pct", "red_open_points", "red_open_pct"}

\* C3: in every result, each sigma lower bound of an always-non-negative metric
\* is >= 0, and each upper bound is mean + k * std, never clamped.
C3_LowerBoundsNonNegative ==
    (Returned /\ stats # EmptyDict)
    => \A name \in NonNegativeMetrics : \A i \in 1 .. 3 :
          /\ QGeZero(stats[Key(name, BoundSuffix(i, "lower"))])
          /\ stats[Key(name, BoundSuffix(i, "upper"))]
                = QLin(stats[Key(name, "avg")].m, i, stats[Key(name, "std")])

\* a result in which one lower bound was clamped and another metric has no variance
C3_Witness ==
    /\ Returned /\ stats # EmptyDict
    /\ \E name \in NonNegativeMetrics : \E i \in 1 .. 3 :
          /\ stats[Key(name, "std")] # QZero
          /\ QLtZero(QLin(stats[Key(name, "avg")].m, -i, stats[Key(name, "std")]))
          /\ stats[Key(name, BoundSuffix(i, "lower"))] = QZero
    /\ \E name \in NonNegativeMetrics :
          /\ stats[Key(name, "std")] = QZero
          /\ stats[Key(name, "avg")] # QZero
          /\ stats[Key(name, "1std_lower")] = stats[Key(name, "avg")]

\* the partitions, by the name their two blocks share
BaseFamilies == {"gap_up", "gap_down", "green_prev", "red_prev", "green_open", "red_open"}
PullbackFamilies == {"green_pullback", "red_pullback"}
Families == BaseFamilies \cup (IF pullback_threshold.some THEN PullbackFamilies ELSE {})

\* whether row i of the frame belongs to the partition
InPartition(fam, i) ==
    CASE fam = "gap_up" -> FGt(df[i].Gap_Points, Zero)
      [] fam = "gap_down" -> FLt(df[i].Gap_Points, Zero)
      [] fam = "green_prev" -> FGt(df[i].Change_From_Prev_Close_Points, Zero)
      [] fam = "red_prev" -> FLt(df[i].Change_From_Prev_Close_Points, Zero)
      [] fam = "green_open" -> FGt(df[i].Close, df[i].Open)
      [] fam = "red_open" -> FLt(df[i].Close, df[i].Open)
      [] fam = "green_pullback" ->
            /\ i < Len(df)
            /\ green_threshold_mask(df[i], Rat(pullback_threshold.v), pullback_type)
      [] fam = "red_pullback" ->
            /\ i < Len(df)
            /\ red_threshold_mask(df[i], Rat(pullback_threshold.v), pullback_type)

PartitionIsEmpty(fam) == \A i \in DOMAIN df : ~InPartition(fam, i)
BlockOf(name) == [k \in {Key(name, sfx) : sfx \in Suffixes} |-> stats[k]]

\* C4: a partition that holds no bar has all ten fields of its points block and
\* of its percent block equal to 0, the very block calc_stats returns for an
\* empty series of that name.
C4_EmptyPartitionIsZeroBlock ==
    (Returned /\ stats # EmptyDict)
    => \A fam \in Families : PartitionIsEmpty(fam)
          => \A name \in {Key(fam, "points"), Key(fam, "pct")} :
                /\ \A sfx \in Suffixes :
                      /\ Key(name, sfx) \in DOMAIN stats
                      /\ stats[Key(name, sfx)] = QZero
                /\ BlockOf(name) = calc_stats(<<>>, name, TRUE)

\* an empty gap-up partition beside a gap-down partition with a non-zero mean
C4_Witness ==
    /\ Returned /\ stats # EmptyDict
    /\ PartitionIsEmpty("gap_up")
    /\ ~PartitionIsEmpty("gap_down")
    /\ stats["gap_down_points_avg"] # QZero
    /\ stats["gap_up_points_avg"] = QZero
    /\ pullback_threshold.some /\ PartitionIsEmpty("green_pullback")
    /\ stats["green_pullback_pct_3std_upper"] = QZero

NumberOf(bars, P(_)) == Cardinality({i \in DOMAIN bars : P(bars[i])})

\* C5: total_candles = green + red + flat with each count >= 0, green and red
\* being the numbers of in-window bars with close > open and close < open.
C5_CandleCountsAddUp ==
    (Returned /\ stats # EmptyDict)
    => /\ Count("total_candles") = Count("green_candles_count")
              + Count("red_candles_count") + Count("flat_candles_count")
       /\ Count("green_candles_count") >= 0
       /\ Count("red_candles_count") >= 0
       /\ Count("flat_candles_count") >= 0
       /\ Count("green_candles_count") = NumberOf(InWindowBars, LAMBDA b : b.Close > b.Open)
       /\ Count("red_candles_count") = NumberOf(InWindowBars, LAMBDA b : b.Close < b.Open)

C5_Witness ==
    /\ Returned /\ stats # EmptyDict
    /\ Count("green_candles_count") >= 1
    /\ Count("red_candles_count") >= 1
    /\ Count("flat_candles_count") >= 1

\* C6: with pullback analysis enabled, each direction's pullback count is at
\* most its threshold-qualifying count.
C6_PullbackCountAtMostThresholdCount ==
    (Returned /\ stats # EmptyDict /\ pullback_threshold.some)
    => /\ Count("green_pullback_count") <= Count("green_threshold_count")
       /\ Count("red_pullback_count") <= Count("red_threshold_count")

\* two qualifying green bars, the second of them last in the window
C6_Witness ==
    /\ Returned /\ stats # EmptyDict /\ pullback_threshold.some
    /\ Count("green_threshold_count") = 2
    /\ Count("green_pullback_count") = 1
    /\ Count("red_pullback_count") = 1

\* C7: the call returns the empty result when the bar sequence is empty or no
\* bar lies inside the window, the only retained bar being the buffer bar
\* dated start - 1 included.
C7_EmptyWindowGivesEmptyResult ==
    (Returned /\ InWindowBars = <<>>) => stats = EmptyDict

ValidThreshold(t) == ~t.some \/ (0 < t.v /\ t.v <= MaxThreshold)

\* C8: a call with an invalid configuration (threshold outside (0,50], a mode
\* other than body/candle, a frequency other than Weekly/Monthly, an unknown
\* weekday) fails: it never completes with statistics or a resampled series.
C8_InvalidConfigurationRejected ==
    /\ Returned => /\ ValidThreshold(pullback_threshold)
                   /\ pullback_type \in {"body", "candle"}
    /\ pc = "resampled" => /\ widgets.frequency \in {"Weekly", "Monthly"}
                           /\ widgets.frequency = "Weekly" => widgets.start_day \in DOMAIN day_map

\* C9: the threshold predicate follows the mode selected on the page: with Body
\* a bar qualifies iff body_pct >= threshold, with Candle iff range_pct >= threshold.
SelectedCondition(r) ==
    IF widgets.threshold_type = "Body"
    THEN FGe(r.Body_Pct, Rat(widgets.threshold))
    ELSE FGe(r.Range_Pct, Rat(widgets.threshold))

C9_ThresholdFollowsSelectedMode ==
    (Returned /\ stats # EmptyDict /\ widgets.enable_pullback)
    => /\ Count("green_threshold_count")
            = NumberOf(df, LAMBDA r : SelectedCondition(r) /\ FGt(r.Close, r.Open))
       /\ Count("red_threshold_count")
            = NumberOf(df, LAMBDA r : SelectedCondition(r) /\ FLt(r.Close, r.Open))

\* C10: resampling the output of resample_data again, with the same frequency
\* and start day, returns the same series: same dates, same OHLCV per bar.
C10_ResampleIdempotent ==
    pc = "resampled_again"
    => /\ ~resampled_again.raised
       /\ resampled_again.value = resampled.value

\* two daily bars merged into one weekly bar labelled with a later date
C10_Witness ==
    /\ pc = "resampled_again"
    /\ widgets.frequency = "Weekly"
    /\ Len(data) = 2
    /\ Len(resampled.value) = 1
    /\ resampled.value[1].date > data[2].date
    /\ resampled.value[1].Volume = data[1].Volume + data[2].Volume
    /\ resampled_again.value = resampled.value

\* the resample period a label names: the seven days ending on the anchor
\* weekday, or the calendar month starting on the label
IsPeriodLabel(label) ==
    IF widgets.frequency = "Weekly"
    THEN Weekday(label) = day_map[widgets.start_day]
    ELSE label \in MonthStarts
InPeriod(date, label) ==
    IF widgets.frequency = "Weekly"
    THEN label - 6 <= date /\ date <= label
    ELSE label <= date /\ \A m \in MonthStarts : m > label => date < m
PeriodBars(label) == SelectSeq(data, LAMBDA b : InPeriod(b.date, label))

\* C11: resample_data emits exactly one bar for each period that holds an
\* input bar, with the first open, the highest high, the lowest low, the last
\* close and the summed volume of the period's bars; a period without bars
\* emits nothing and an empty input gives an empty output.
C11_ResampleAggregatesPeriods ==
    (pc = "resampled" /\ widgets.frequency \in {"Weekly", "Monthly"})
    => LET out == resampled.value
       IN  /\ data = <<>> => out = <<>>
           /\ \A i, j \in DOMAIN out : i < j => out[i].date < out[j].date
           /\ \A b \in {data[i] : i \in DOMAIN data} :
                 \E i \in DOMAIN out : InPeriod(b.date, out[i].date)
           /\ \A i \in DOMAIN out :
                 LET bin == PeriodBars(out[i].date)
                 IN  /\ IsPeriodLabel(out[i].date)
                     /\ bin # <<>>
                     /\ out[i].Open = bin[1].Open
                     /\ out[i].Close = bin[Len(bin)].Close
                     /\ \A k \in DOMAIN bin : bin[k].High <= out[i].High /\ out[i].Low <= bin[k].Low
                     /\ \E k \in DOMAIN bin : bin[k].High = out[i].High
                     /\ \E k \in DOMAIN bin : bin[k].Low = out[i].Low
                     /\ out[i].Volume = SumOf(bin, "Volume")

\* two bars of one week with different opens and closes become one bar
C11_Witness ==
    /\ pc = "resampled" /\ widgets.frequency = "Weekly"
    /\ Len(data) = 2 /\ Len(resampled.value) = 1
    /\ data[1].Open # data[2].Open /\ data[1].Close # data[2].Close
    /\ data[1].High < data[2].High
    /\ resampled.value[1].Open = data[1].Open
    /\ resampled.value[1].Close = data[2].Close

\* the names of the blocks of a result
BaseMetricNames ==
    {"range_points", "range_pct", "body_points", "body_pct",
     "net_change_points", "net_change_pct"}
    \cup {Key(fam, unit) : fam \in BaseFamilies, unit \in {"points", "pct"}}
PullbackMetricNames == {Key(fam, unit) : fam \in PullbackFamilies, unit \in {"points", "pct"}}
MetricNames ==
    BaseMetricNames \cup (IF pullback_threshold.some THEN PullbackMetricNames ELSE {})

\* C12: when a single bar is analysed (the sequence's only bar, or the only
\* bar inside the window), every metric block of the result has std = 0, its
\* six sigma bounds equal to its mean, and no NaN field.
C12_SingleBarBandsCollapse ==
    (Returned /\ Len(InWindowBars) = 1)
    => /\ stats # EmptyDict
       /\ \A name \in MetricNames :
             /\ stats[Key(name, "std")] = QZero
             /\ \A k \in BoundKeys(name) : stats[k] = stats[Key(name, "avg")]
             /\ \A sfx \in Suffixes : ~QIsNaN(stats[Key(name, sfx)])

\* a one-bar sequence without window, with a non-zero range and pullback blocks
C12_Witness ==
    /\ Returned /\ Len(data) = 1 /\ start_date = None
    /\ pullback_threshold.some
    /\ stats["range_points_avg"] # QZero
    /\ stats["range_points_3std_lower"] = stats["range_points_avg"]
    /\ stats["range_points_std"] = QZero

\* the bar before data[k] is kept by the window filter (dated start - 1 or later)
PredecessorRetained(k) ==
    k > 1 /\ ((start_date.some /\ end_date.some) => data[k - 1].date >= start_date.v - 1)
InWindowIndices ==
    {k \in DOMAIN data : (start_date.some => data[k].date >= start_date.v)
                         /\ (end_date.some => data[k].date <= end_date.v)}
RowOf(k) == CHOOSE r \in {df[i] : i \in DOMAIN df} : r.date = data[k].date
Prices(bars) == [i \in DOMAIN bars |-> <<bars[i].Open, bars[i].High, bars[i].Low, bars[i].Close>>]

\* C13: every in-window bar has Range_Points = high - low and Body_Points =
\* |close - open|; with a predecessor in the retained sequence its Gap_Points =
\* open - previous close and Net_Change_Points = Change_From_Prev_Close_Points
\* = close - previous close.  The bars (100,105,98,102), (103,104,101,101)
\* without threshold give ranges 7, 3, bodies 2, 2, a gap of 1 for bar 2
\* counted as gap-up, one green and one red candle.
C13_DerivedFieldsAndExample ==
    Returned
    => /\ \A k \in InWindowIndices :
             /\ \E i \in DOMAIN df : df[i].date = data[k].date
             /\ RowOf(k).Range_Points = Rat(data[k].High - data[k].Low)
             /\ RowOf(k).Body_Points = Rat(AbsInt(data[k].Close - data[k].Open))
             /\ PredecessorRetained(k)
                => /\ RowOf(k).Gap_Points = Rat(data[k].Open - data[k - 1].Close)
                   /\ RowOf(k).Net_Change_Points = Rat(data[k].Close - data[k - 1].Close)
                   /\ RowOf(k).Change_From_Prev_Close_Points = RowOf(k).Net_Change_Points
       /\ (Prices(data) = Prices(ExampleBars) /\ InWindowBars = data /\ ~pullback_threshold.some)
          => /\ Col(df, "Range_Points") = <<Rat(7), Rat(3)>>
             /\ Col(df, "Body_Points") = <<Rat(2), Rat(2)>>
             /\ df[2].Gap_Points = Rat(1)
             /\ Count("gap_up_candles") = 1
             /\ Count("gap_down_candles") = 0
             /\ Count("green_candles_count") = 1
             /\ Count("red_candles_count") = 1

\* the example bars analysed whole, without threshold
C13_Witness ==
    /\ Returned /\ Prices(data) = Prices(ExampleBars)
    /\ start_date = None /\ ~pullback_threshold.some
    /\ Len(df) = 2 /\ df[2].Gap_Points = Rat(1)
    /\ stats["gap_up_points_avg"] = QRat(Rat(1))

\* whether a bar meets the threshold in the mode of the call, from its prices
Qualifies(b) ==
    LET measure == IF pullback_type = "body" THEN AbsInt(b.Close - b.Open) ELSE b.High - b.Low
    IN  FGe(Pct(Rat(measure), Rat(b.Open)), Rat(pullback_threshold.v))

\* the observations the claim describes, in window order
RECURSIVE Observations(_, _)
Observations(bars, colour) ==
    IF Len(bars) < 2 THEN <<>>
    ELSE LET b == bars[1]
             nxt == bars[2]
             here == IF colour = "green"
                     THEN IF Qualifies(b) /\ b.Close > b.Open
                          THEN <<Rat(nxt.Low - b.Close)>> ELSE <<>>
                     ELSE IF Qualifies(b) /\ b.Close < b.Open
                          THEN <<Rat(nxt.High - b.Close)>> ELSE <<>>
         IN  here \o Observations(Tail(bars), colour)

\* the series calculate_statistics summarizes at lines 306 and 318
PullbackSeries(col) == DropNa(ReplaceInf(Col(df, col)))

\* C14: the green-pullback series has one observation, successor.low - close,
\* for each qualifying green in-window bar with a successor in the window, and
\* the red-pullback series one observation, successor.high - close, for each
\* qualifying red one; the last bar, flat bars and bars below the threshold
\* contribute none.
C14_PullbackSeries ==
    (Returned /\ stats # EmptyDict /\ pullback_threshold.some)
    => /\ PullbackSeries("Green_Pullback_Points") = Observations(InWindowBars, "green")
       /\ PullbackSeries("Red_Pullback_Points") = Observations(InWindowBars, "red")
       /\ Count("green_pullback_count") = Len(Observations(InWindowBars, "green"))
       /\ Count("red_pullback_count") = Len(Observations(InWindowBars, "red"))

\* three bars: a qualifying green bar, a red bar below the threshold, and a
\* qualifying green bar that is last in the window
C14_Witness ==
    /\ Returned /\ pullback_threshold.some /\ Len(df) = 3
    /\ Len(PullbackSeries("Green_Pullback_Points")) = 1
    /\ FLt(PullbackSeries("Green_Pullback_Points")[1], Zero)
    /\ Count("green_threshold_count") = 2
    /\ Count("red_candles_count") = 1
    /\ Count("red_threshold_count") = 0
    /\ PullbackSeries("Red_Pullback_Points") = <<>>

ScalarCounts ==
    {"total_candles", "green_candles_count", "red_candles_count", "flat_candles_count",
     "green_candles_percentage", "gap_up_candles", "gap_down_candles", "no_gap_candles"}
PullbackCounts ==
    {"green_pullback_count", "red_pullback_count",
     "green_threshold_count", "red_threshold_count"}
BlockKeys(names) == {Key(name, sfx) : name \in names, sfx \in Suffixes}
ExpectedKeys ==
    BlockKeys(BaseMetricNames) \cup ScalarCounts
    \cup (IF pullback_threshold.some
          THEN BlockKeys(PullbackMetricNames) \cup PullbackCounts ELSE {})

\* C15: a non-empty result holds a finite value for the ten fields of each of
\* the 18 base metrics and for the eight counts, and, exactly when a threshold
\* is given, for the ten fields of the four pullback metrics and the four
\* pullback/threshold counts; nothing is missing, NaN or infinite.
C15_ResultComplete ==
    (Returned /\ stats # EmptyDict)
    => /\ DOMAIN stats = ExpectedKeys
       /\ \A k \in DOMAIN stats : QIsFinite(stats[k]) /\ IsFinite(stats[k].v)

\* a window with a bar opening at zero and a bar whose previous close is zero
C15_Witness ==
    /\ Returned /\ stats # EmptyDict /\ pullback_threshold.some
    /\ \E i \in DOMAIN df : IsInf(df[i].Range_Pct)
    /\ \E i \in DOMAIN df : IsInf(df[i].Gap_Pct)
    /\ \E i \in DOMAIN df : IsNaN(df[i].Net_Change_Pct)
    /\ PartitionIsEmpty("red_prev")
    /\ Cardinality(DOMAIN stats) = 232

C17_TasksInAnyOrder ==
    pc = "assembled"
    => /\ stats = Summarize(df, pullback_threshold, pullback_type)
       /\ \A t1, t2 \in TaskNames(pullback_threshold) :
             t1 # t2 =>
                DOMAIN TaskBlock(t1, df, pullback_threshold, pullback_type)
                \cap DOMAIN TaskBlock(t2, df, pullback_threshold, pullback_type) = {}

\* all fifteen aggregations written, an empty partition beside a filled one
C17_Witness ==
    /\ pc = "assembled" /\ pullback_threshold.some
    /\ PartitionIsEmpty("gap_down") /\ ~PartitionIsEmpty("gap_up")
    /\ stats["gap_up_points_avg"] = QRat(Rat(1))
    /\ Cardinality(DOMAIN stats) = 232

\* the bars dated the day before the analysis start: the buffer bar, if any
BufferBars == SelectSeq(data, LAMBDA b : start_date.some /\ b.date = start_date.v - 1)

\* C18: with start and end given, the analysed rows are exactly the input bars
\* with start <= date <= end, total_candles is their number, and a bar dated
\* before start enters no row: it only supplies the first row's Prev_Close.
C18_OnlyWindowBarsContribute ==
    (Returned /\ start_date.some /\ end_date.some /\ stats # EmptyDict)
    => /\ Len(df) = Len(InWindowBars)
       /\ Count("total_candles") = Len(InWindowBars)
       /\ Count("gap_up_candles") + Count("gap_down_candles") + Count("no_gap_candles")
             = Len(InWindowBars)
       /\ \A i \in DOMAIN df :
             /\ df[i].date = InWindowBars[i].date
             /\ df[i].Open = Rat(InWindowBars[i].Open)
             /\ df[i].High = Rat(InWindowBars[i].High)
             /\ df[i].Low = Rat(InWindowBars[i].Low)
             /\ df[i].Close = Rat(InWindowBars[i].Close)
             /\ i > 1 => df[i].Prev_Close = Rat(InWindowBars[i - 1].Close)
       /\ df # <<>> =>
             df[1].Prev_Close = IF BufferBars # <<>> THEN Rat(BufferBars[1].Close) ELSE NaN

\* bars before, inside and after a one-day window
C18_Witness ==
    /\ Returned /\ start_date.some /\ end_date.some
    /\ Len(data) = 3 /\ BufferBars # <<>>
    /\ Count("total_candles") = 1
    /\ df[1].Prev_Close = Rat(data[1].Close)
    /\ data[1].High # data[2].High

\* the in-window bars with a retained predecessor, and their signed values
WithPredecessor == {k \in InWindowIndices : PredecessorRetained(k)}
GapOf(k) == data[k].Open - data[k - 1].Close
ChangeOf(k) == data[k].Close - data[k - 1].Close
BodyOf(k) == data[k].Close - data[k].Open
\* the smallest value of a block is above zero whenever its partition has a bar
MinPositive(name, members) ==
    members # {} => FGt(stats[Key(name, "min")].m, Zero)

\* C19: partitions are cut by strict sign tests: gap-up iff gap > 0, gap-down
\* iff gap < 0, likewise green/red from the previous close and from the open;
\* a bar whose value is exactly 0 is in neither partition of its family and in
\* neither of its counts.
C19_StrictSignPartitions ==
    (Returned /\ stats # EmptyDict)
    => LET up == {k \in WithPredecessor : GapOf(k) > 0}
           down == {k \in WithPredecessor : GapOf(k) < 0}
           greenPrev == {k \in WithPredecessor : ChangeOf(k) > 0}
           redPrev == {k \in WithPredecessor : ChangeOf(k) < 0}
           green == {k \in InWindowIndices : BodyOf(k) > 0}
           red == {k \in InWindowIndices : BodyOf(k) < 0}
       IN  /\ Count("gap_up_candles") = Cardinality(up)
           /\ Count("gap_down_candles") = Cardinality(down)
           /\ Count("green_candles_count") = Cardinality(green)
           /\ Count("red_candles_count") = Cardinality(red)
           /\ Len(gap_up_data(df)) = Cardinality(up)
           /\ Len(gap_down_data(df)) = Cardinality(down)
           /\ Len(green_prev_data(df)) = Cardinality(greenPrev)
           /\ Len(red_prev_data(df)) = Cardinality(redPrev)
           /\ MinPositive("gap_up_points", up) /\ MinPositive("gap_down_points", down)
           /\ MinPositive("green_prev_points", greenPrev)
           /\ MinPositive("red_prev_points", redPrev)
           /\ MinPositive("green_open_points", green)
           /\ MinPositive("red_open_points", red)

\* a zero-gap bar and a flat bar beside a gap-up bar and a green bar
C19_Witness ==
    /\ Returned /\ stats # EmptyDict
    /\ \E k \in WithPredecessor : GapOf(k) = 0 /\ ChangeOf(k) = 0
    /\ \E k \in InWindowIndices : BodyOf(k) = 0
    /\ Count("gap_up_candles") = 1 /\ Count("gap_down_candles") = 0
    /\ Count("green_candles_count") = 1 /\ Count("red_candles_count") = 0
    /\ Count("total_candles") = 3

PredecessorFields ==
    {"Prev_Close", "Gap_Points", "Gap_Pct",
     "Change_From_Prev_Close_Points", "Change_From_Prev_Close_Pct",
     "Net_Change_Points", "Net_Change_Pct"}
CompanionFields ==
    {"Gap_Up_Points", "Gap_Up_Pct", "Gap_Down_Points", "Gap_Down_Pct",
     "Green_From_Prev_Points", "Green_From_Prev_Pct",
     "Red_From_Prev_Points", "Red_From_Prev_Pct"}
\* the first analysed bar has no predecessor in the retained sequence
FirstRowWithoutPredecessor ==
    /\ df # <<>>
    /\ \E k \in InWindowIndices :
          /\ data[k].date = df[1].date
          /\ ~PredecessorRetained(k)

\* C20: for a bar without predecessor every predecessor-dependent field (gap,
\* change from previous close, net change and the gap-up/gap-down and
\* green/red-from-previous-close companions, points and percent) stays
\* "no value" up to the aggregation and is never replaced by zero.
C20_NoValueKeptThroughPipeline ==
    (Returned /\ FirstRowWithoutPredecessor)
    => \A f \in PredecessorFields \cup CompanionFields : IsNaN(df[1][f])

\* C20 as amended: for a bar without predecessor the gap, change and net change
\* fields stay "no value"; its companion fields are 0, as for every bar
\* outside the partition, but the bar is in none of the four predecessor
\* partitions, so those zeros reach no summarized series: the partition
\* counts and the net-change series cover only bars with a predecessor.
C20_Amended ==
    (Returned /\ FirstRowWithoutPredecessor)
    => /\ \A f \in PredecessorFields : IsNaN(df[1][f])
       /\ \A f \in CompanionFields : df[1][f] = Zero
       /\ \A part \in {gap_up_data(df), gap_down_data(df),
                       green_prev_data(df), red_prev_data(df)} :
             \A i \in DOMAIN part : part[i].date # df[1].date
       /\ Len(DropNa(Col(df, "Net_Change_Points"))) = Len(df) - 1
       /\ Count("gap_up_candles") + Count("gap_down_candles") <= Len(df) - 1
       /\ Len(df) = 1 =>
             \A name \in {"net_change_points", "gap_up_points", "gap_down_points",
                          "green_prev_points", "red_prev_points"} :
                BlockOf(name) = ZeroBlock(name)

\* a first bar without predecessor followed by a bar that gaps up
C20_Witness ==
    /\ Returned /\ FirstRowWithoutPredecessor
    /\ Len(df) = 2
    /\ df[1].Gap_Up_Points = Zero /\ IsNaN(df[1].Gap_Points)
    /\ FGt(df[2].Gap_Points, Zero)
    /\ Count("gap_up_candles") = 1
    /\ stats["gap_up_points_min"] # QZero

\* the in-window bars whose gap is defined and exactly 0
ZeroGapBars == {k \in WithPredecessor : GapOf(k) = 0}
\* the in-window bars whose gap is undefined: no predecessor is retained
UndefinedGapBars == InWindowIndices \ WithPredecessor

\* C21: in every non-empty result no_gap_candles is the number of in-window
\* bars whose gap is defined and exactly 0; a bar whose gap is undefined (no
\* predecessor retained) is not counted as a no-gap bar.
C21_NoGapCountsZeroGaps ==
    (Returned /\ stats # EmptyDict)
    => Count("no_gap_candles") = Cardinality(ZeroGapBars)

\* what lines 334-341 compute instead: the remainder total - up - down, which
\* takes in every bar whose gap is undefined
C21_NoGapIsRemainder ==
    (Returned /\ stats # EmptyDict)
    => Count("no_gap_candles") = Cardinality(ZeroGapBars) + Cardinality(UndefinedGapBars)

\* whether the last bar of the window meets the threshold in a direction
LastQualifies(colour) ==
    /\ InWindowBars # <<>>
    /\ LET b == InWindowBars[Len(InWindowBars)]
       IN  /\ Qualifies(b)
           /\ IF colour = "green" THEN b.Close > b.Open ELSE b.Close < b.Open
\* threshold count minus pullback count of a direction
Unobserved(colour) ==
    Count(colour \o "_threshold_count") - Count(colour \o "_pullback_count")

\* C22: with pullback analysis enabled, for each direction the threshold count
\* minus the pullback count is 1 exactly when the last bar of the window is
\* threshold-qualifying in that direction and 0 otherwise; hence the two
\* differences add up to at most 1.
C22_LastBarIsTheOnlyUnobserved ==
    (Returned /\ stats # EmptyDict /\ pullback_threshold.some)
    => /\ Unobserved("green") = (IF LastQualifies("green") THEN 1 ELSE 0)
       /\ Unobserved("red") = (IF LastQualifies("red") THEN 1 ELSE 0)
       /\ Unobserved("green") + Unobserved("red") <= 1

\* three bars, all qualifying: a red bar and a green bar that have a successor
\* and a green bar that is last in the window
C22_Witness ==
    /\ Returned /\ stats # EmptyDict /\ pullback_threshold.some
    /\ Len(InWindowBars) = 3 /\ LastQualifies("green")
    /\ Count("green_threshold_count") = 2 /\ Count("green_pullback_count") = 1
    /\ Count("red_threshold_count") = 1 /\ Count("red_pullback_count") = 1

\* both implementations have returned
Compared == pc = "compared"
\* the keys of calc_stats' block that depend on the deviation
DeviationSuffixes == Suffixes \ {"min", "max", "avg"}
DeviationKeys == {Key(name, s) : name \in BaseMetricNames, s \in DeviationSuffixes}
\* the block's average, for a key of the block
AvgOf(k) == CHOOSE q \in {stats[Key(name, "avg")] : name \in {n \in BaseMetricNames :
                              \E s \in DeviationSuffixes : k = Key(n, s)}} : TRUE

\* C23: for every bar sequence and window, working.py's calculate_statistics
\* and main.py's called with pullback_threshold=None return the same value for
\* every key of working.py's result, including for metric series or
\* partitions that hold a single value.
C23_ImplementationsAgree ==
    Compared
    => \A k \in DOMAIN working_stats : k \in DOMAIN stats /\ stats[k] = working_stats[k]

\* where the two results part: on a deviation key for which working.py returns
\* NaN, main.py returning 0 for the deviation and the average for a bound
C23_DifferOnlyByNaNDeviation ==
    Compared
    => \A k \in DOMAIN working_stats :
          /\ k \in DOMAIN stats
          /\ stats[k] # working_stats[k]
             => /\ k \in DeviationKeys
                /\ QIsNaN(working_stats[k])
                /\ stats[k] \in {QZero, AvgOf(k)}

=============================================================================
